---- MODULE Spec2Model ----
(***************************************************************************)
(* State-machine model of src/pages/statistics/GLM_IRLS_Visualizer.js:     *)
(* the GLMVisualizer component (a step cursor), the useKaTeX hook (dynamic *)
(* injection of the KaTeX stylesheet and script) and the Latex component   *)
(* (typesetting with a plain-text fallback).                               *)
(*                                                                         *)
(* The browser and the React runtime are the environment: they mount and   *)
(* unmount the component, flush its effects, dispatch clicks and settle    *)
(* the script requests.                                                    *)
(***************************************************************************)
EXTENDS Integers, Sequences, FiniteSets

\* How many times the component may be mounted in one page session.
MaxMounts == 2
\* How many Latex elements at each end of the document order may have their
\* typesetting call throw (window.katex.render is outside this repository).
MaxThrowing == 1

VARIABLES
    mounted,        \* a GLMVisualizer instance is in the tree
    mountGen,       \* how many instances have been mounted so far
    activeStep,     \* useState(0) of GLMVisualizer
    isLoaded,       \* useState(false) of useKaTeX
    effectsPending, \* the mount's passive effects have not been flushed yet
    latexPending,   \* isLoaded changed; the Latex effects have not re-run yet
    katex,          \* window.katex is defined
    headLinks,      \* number of stylesheet links appended to document.head
    scripts,        \* script elements appended to document.head, in order
    display,        \* what each Latex container shows
    rendered,       \* outcome of window.katex.render per Latex element
    lastEvent,      \* the event the runtime dispatched last
    trail           \* cursor values since the last mount or direct selection

vars == <<mounted, mountGen, activeStep, isLoaded, effectsPending, latexPending,
          katex, headLinks, scripts, display, rendered, lastEvent, trail>>

----------------------------------------------------------------------------
(* GLMVisualizer: the five step descriptors (id, title, icon, math).       *)

steps ==
    << [id |-> 1, title |-> "Initialization", icon |-> "Calculator",
        math |-> "\\beta^{(0)}"],
       [id |-> 2, title |-> "Predict", icon |-> "TrendingUp",
        math |-> "\\eta = X\\beta, \\quad \\mu = g^{-1}(\\eta)"],
       [id |-> 3, title |-> "Adjust", icon |-> "Scale",
        math |-> "z, \\quad W"],
       [id |-> 4, title |-> "Update", icon |-> "RefreshCw",
        math |-> "\\beta^{(new)} = (X^T W X)^{-1} X^T W z"],
       [id |-> 5, title |-> "Check", icon |-> "CheckCircle",
        math |-> "|\\beta^{(new)} - \\beta^{(old)}| < \\epsilon"] >>

\* The indices steps.map hands to its callback.
StepIndices == 0 .. (Len(steps) - 1)

\* The Latex elements of the right column, in document order.
staticLatex ==
    << [children |-> "\\eta", displayMode |-> FALSE],
       [children |-> "\\mu", displayMode |-> FALSE],
       [children |-> "g", displayMode |-> FALSE],
       [children |-> "\\eta_i = \\mathbf{x}_i^T \\beta, \\quad \\eta_i = g(\\mu_i)",
        displayMode |-> TRUE],
       [children |-> "z", displayMode |-> FALSE],
       [children |-> "z_i = \\eta_i + (y_i - \\mu_i) \\frac{d\\eta_i}{d\\mu_i}",
        displayMode |-> TRUE],
       [children |-> "W", displayMode |-> FALSE],
       [children |-> "V(\\mu)", displayMode |-> FALSE],
       [children |-> "W_{ii} = \\frac{1}{Var(Y_i)} \\left( \\frac{d\\mu_i}{d\\eta_i} \\right)^2",
        displayMode |-> TRUE],
       [children |-> "\\beta^{(t+1)} = (X^T W^{(t)} X)^{-1} X^T W^{(t)} \\mathbf{z}^{(t)}",
        displayMode |-> TRUE],
       [children |-> "W", displayMode |-> FALSE],
       [children |-> "z", displayMode |-> FALSE] >>

\* Every Latex element of the component: one per step, then the static ones.
latexProps ==
    [i \in 1 .. Len(steps) |-> [children |-> steps[i].math, displayMode |-> FALSE]]
        \o staticLatex

LatexIds == 1 .. Len(latexProps)

\* The elements whose typesetting call may throw in this model.
ThrowCandidates ==
    {e \in LatexIds : e <= MaxThrowing \/ e > Len(latexProps) - MaxThrowing}

----------------------------------------------------------------------------
(* What a Latex container shows.                                           *)

\* The span's React child: {children} as a text node.
RawText(e) ==
    [kind |-> "text", content |-> latexProps[e].children, displayMode |-> FALSE]

\* The DOM window.katex.render builds from children.
Typeset(e) ==
    [kind |-> "katex", content |-> latexProps[e].children,
     displayMode |-> latexProps[e].displayMode]

\* The catch block without its assignment: whatever the failed call left.
CatchLeavesContainer(e) ==
    [kind |-> "partial", content |-> "", displayMode |-> FALSE]

\* The catch block: containerRef.current.innerText = children.
CatchFallback(e) ==
    [kind |-> "text", content |-> latexProps[e].children, displayMode |-> FALSE]

\* The effect's condition with the isLoaded test dropped.
LatexGuardNoLoaded(loaded) == katex /\ mounted

\* The Latex effect's condition: isLoaded && window.katex && containerRef.current
\* (the ref is set whenever the element is mounted).
LatexGuard(loaded) == loaded /\ katex /\ mounted

\* The outcomes one flush of the Latex effects can have: the set of elements
\* whose render call throws.  With window.katex undefined the call itself is
\* a TypeError for every element.
ThrowChoices == IF katex THEN SUBSET ThrowCandidates ELSE {LatexIds}

\* One flush of the Latex effects, all elements in one commit: try
\* window.katex.render(children, container, ...), catch with the fallback.
LatexPass(throwing) ==
    /\ rendered' = [e \in LatexIds |->
                      IF e \in throwing THEN "threw" ELSE "ok"]
    /\ display' = [e \in LatexIds |->
                      IF e \in throwing THEN CatchFallback(e) ELSE Typeset(e)]

\* The Latex effect of every element, run with the given isLoaded prop.
LatexEffect(loaded) ==
    IF LatexGuard(loaded)
    THEN \E throwing \in ThrowChoices : LatexPass(throwing)
    ELSE UNCHANGED <<display, rendered>>

----------------------------------------------------------------------------
(* The React state of one instance and the handlers that update it.        *)

ReactState == [activeStep |-> activeStep, isLoaded |-> isLoaded]

\* useState(steps[0].id): the first step's id taken for its index.
InitialStateAsId == [activeStep |-> steps[1].id, isLoaded |-> FALSE]

\* useState(0) and useState(false).
InitialState == [activeStep |-> 0, isLoaded |-> FALSE]

\* nextStep without the wrap.
nextStepNoWrap(s) == [s EXCEPT !.activeStep = s.activeStep + 1]

\* nextStep wrapping one position late.
nextStepWrapLate(s) ==
    [s EXCEPT !.activeStep = (s.activeStep + 1) % (Len(steps) + 1)]

\* nextStep advancing by two.
nextStepSkip(s) == [s EXCEPT !.activeStep = (s.activeStep + 2) % Len(steps)]

\* setActiveStep((prev) => (prev + 1) % steps.length)
nextStep(s) == [s EXCEPT !.activeStep = (s.activeStep + 1) % Len(steps)]

\* setActiveStep(step.id): the id taken for the index.
onClickStepById(s, index) == [s EXCEPT !.activeStep = steps[index + 1].id]

\* onClick={() => setActiveStep(index)}
onClickStep(s, index) == [s EXCEPT !.activeStep = index]

\* An onload handler that also rewinds the diagram.
onloadRewinds(s) == [s EXCEPT !.isLoaded = TRUE, !.activeStep = 0]

\* An onload handler that never sets the flag.
onloadForgets(s) == s

\* script.onload = () => setIsLoaded(true)
onload(s) == [s EXCEPT !.isLoaded = TRUE]

\* className of a step: the active classes when activeStep === index.
StepClass(index) ==
    IF activeStep = index THEN "bg-blue-50 border-blue-500 shadow-sm"
    ELSE "bg-white border-gray-200"

Event(op, arg) == [op |-> op, arg |-> arg]

----------------------------------------------------------------------------
Init ==
    /\ mounted = FALSE
    /\ mountGen = 0
    /\ activeStep = InitialState.activeStep
    /\ isLoaded = InitialState.isLoaded
    /\ effectsPending = FALSE
    /\ latexPending = FALSE
    /\ katex \in BOOLEAN
    /\ headLinks = 0
    /\ scripts = << >>
    /\ display = [e \in LatexIds |-> RawText(e)]
    /\ rendered = [e \in LatexIds |-> "none"]
    /\ lastEvent = Event("init", 0)
    /\ trail = << >>

\* React mounts <GLMVisualizer />: first render and commit.
Mount ==
    /\ ~mounted
    /\ mountGen < MaxMounts
    /\ mounted' = TRUE
    /\ mountGen' = mountGen + 1
    /\ activeStep' = InitialState.activeStep
    /\ isLoaded' = InitialState.isLoaded
    /\ effectsPending' = TRUE
    /\ latexPending' = FALSE
    /\ display' = [e \in LatexIds |-> RawText(e)]
    /\ rendered' = [e \in LatexIds |-> "none"]
    /\ lastEvent' = Event("mount", 0)
    /\ trail' = << InitialState.activeStep >>
    /\ UNCHANGED <<katex, headLinks, scripts>>

\* The mount's passive effects: the Latex effects (children first), then the
\* useKaTeX effect.
RunMountEffects ==
    /\ mounted
    /\ effectsPending
    /\ effectsPending' = FALSE
    /\ LatexEffect(isLoaded)
    /\ IF katex
       THEN /\ isLoaded' = TRUE
            /\ latexPending' = TRUE
            /\ UNCHANGED <<headLinks, scripts>>
       ELSE /\ headLinks' = headLinks + 1
            /\ scripts' = Append(scripts, [owner |-> mountGen, status |-> "pending"])
            /\ UNCHANGED <<isLoaded, latexPending>>
    /\ lastEvent' = Event("effects", 0)
    /\ UNCHANGED <<mounted, mountGen, activeStep, katex, trail>>

\* The re-render after isLoaded changed: the Latex effects run again
\* (dependency list [isLoaded, children, displayMode]).
RunLatexEffects ==
    /\ mounted
    /\ latexPending
    /\ latexPending' = FALSE
    /\ LatexEffect(isLoaded)
    /\ lastEvent' = Event("latex", 0)
    /\ UNCHANGED <<mounted, mountGen, activeStep, isLoaded, effectsPending,
                   katex, headLinks, scripts, trail>>

\* The cursor values of the current run of next clicks, the last
\* steps.length + 1 of them.
Extend(t, v) ==
    IF Len(t) > Len(steps) THEN Append(Tail(t), v) ELSE Append(t, v)

\* Click on the "next" button: onClick={nextStep}.
ClickNext ==
    /\ mounted
    /\ activeStep' = nextStep(ReactState).activeStep
    /\ isLoaded' = nextStep(ReactState).isLoaded
    /\ lastEvent' = Event("next", 0)
    /\ trail' = Extend(trail, activeStep')
    /\ UNCHANGED <<mounted, mountGen, effectsPending, latexPending, katex,
                   headLinks, scripts, display, rendered>>

\* Click on the step rendered at position index.
ClickStep(index) ==
    /\ mounted
    /\ activeStep' = onClickStep(ReactState, index).activeStep
    /\ isLoaded' = onClickStep(ReactState, index).isLoaded
    /\ lastEvent' = Event("select", index)
    /\ trail' = << activeStep' >>
    /\ UNCHANGED <<mounted, mountGen, effectsPending, latexPending, katex,
                   headLinks, scripts, display, rendered>>

\* The i-th injected script arrives and runs (it defines window.katex), then
\* its load event fires.  The handler belongs to the instance that injected
\* the script; on an instance that is gone the state update is dropped.
ScriptLoad(i) ==
    /\ scripts[i].status = "pending"
    /\ scripts' = [scripts EXCEPT ![i].status = "loaded"]
    /\ katex' = TRUE
    /\ IF mounted /\ scripts[i].owner = mountGen
       THEN /\ activeStep' = onload(ReactState).activeStep
            /\ isLoaded' = onload(ReactState).isLoaded
            /\ latexPending' = (latexPending \/ isLoaded' # isLoaded)
       ELSE UNCHANGED <<activeStep, isLoaded, latexPending>>
    /\ lastEvent' = Event("load", i)
    /\ UNCHANGED <<mounted, mountGen, effectsPending, headLinks, display,
                   rendered, trail>>

\* The i-th script request fails (network, integrity): the error event has
\* no handler.
ScriptError(i) ==
    /\ scripts[i].status = "pending"
    /\ scripts' = [scripts EXCEPT ![i].status = "failed"]
    /\ lastEvent' = Event("error", i)
    /\ UNCHANGED <<mounted, mountGen, activeStep, isLoaded, effectsPending,
                   latexPending, katex, headLinks, display, rendered, trail>>

\* React unmounts the instance: its state and DOM are dropped; the effect's
\* cleanup removes nothing from document.head.
Unmount ==
    /\ mounted
    /\ mounted' = FALSE
    /\ activeStep' = InitialState.activeStep
    /\ isLoaded' = InitialState.isLoaded
    /\ effectsPending' = FALSE
    /\ latexPending' = FALSE
    /\ display' = [e \in LatexIds |-> RawText(e)]
    /\ rendered' = [e \in LatexIds |-> "none"]
    /\ lastEvent' = Event("unmount", 0)
    /\ trail' = << >>
    /\ UNCHANGED <<mountGen, katex, headLinks, scripts>>

ScriptSettles == \E i \in 1 .. Len(scripts) : ScriptLoad(i) \/ ScriptError(i)

Next ==
    \/ Mount
    \/ RunMountEffects
    \/ RunLatexEffects
    \/ ClickNext
    \/ \E index \in StepIndices : ClickStep(index)
    \/ \E i \in 1 .. Len(scripts) : ScriptLoad(i)
    \/ \E i \in 1 .. Len(scripts) : ScriptError(i)
    \/ Unmount

Spec == Init /\ [][Next]_vars

\* The runtime flushes scheduled effects, and the browser settles every
\* script request (load or error).  Clicks, mounts and unmounts are up to
\* the user.
LiveSpec ==
    /\ Init
    /\ [][Next]_vars
    /\ WF_vars(RunMountEffects)
    /\ WF_vars(RunLatexEffects)
    /\ WF_vars(ScriptSettles)

----------------------------------------------------------------------------
(* Properties.                                                             *)

\* The steps displayed with the active classes.
ActiveSteps ==
    {k \in StepIndices : StepClass(k) = "bg-blue-50 border-blue-500 shadow-sm"}

\* The instance mounted g-th is the one in the tree.
Here(g) == mounted /\ mountGen = g

\* The script injected by the g-th instance has fired its load event.
OwnScriptLoaded(g) ==
    \E i \in 1 .. Len(scripts) : scripts[i].owner = g /\ scripts[i].status = "loaded"

\* Every Latex element has been handed to window.katex.render.
AllHanded == \A e \in LatexIds : rendered[e] # "none"

\* Every Latex container shows its raw markup string.
AllRaw == \A e \in LatexIds : display[e] = RawText(e)

\* C1: a next click takes activeStep from i in 0..4 to (i + 1) mod 5, so 4
\* becomes 0 and no other value is produced.
C1_NextAdvancesWrapping ==
    [][lastEvent'.op = "next" =>
          /\ activeStep \in 0 .. 4
          /\ activeStep' = (activeStep + 1) % 5
          /\ (activeStep = 4 => activeStep' = 0)]_vars

\* A next click has just wrapped the cursor from 4 to 0.
C1_Witness ==
    /\ lastEvent.op = "next"
    /\ Len(trail) >= 2
    /\ trail[Len(trail) - 1] = 4
    /\ activeStep = 0

\* C2: a click on the step at index k leaves activeStep equal to k, whatever
\* the previous value was.
C2_SelectSetsCursor ==
    [][lastEvent'.op = "select" =>
          /\ lastEvent'.arg \in 0 .. 4
          /\ activeStep' = lastEvent'.arg]_vars

\* The last step was selected directly, and the selection moved the cursor.
C2_Witness ==
    /\ lastEvent = Event("select", 4)
    /\ activeStep = 4
    /\ trail = << 4 >>

\* C3: activeStep is always an index into the five step descriptors.
C3_CursorInBounds == activeStep \in 0 .. 4 /\ activeStep + 1 \in DOMAIN steps

\* The cursor is on the last step when an injected script fires its load event.
C3_Witness == mounted /\ activeStep = 4 /\ lastEvent.op = "load" /\ isLoaded

\* C4: when the typesetting call of a Latex element throws, its container
\* shows exactly the raw markup, the instance stays mounted, activeStep is
\* untouched and the other elements are typeset as usual.
C4_RenderFailureFallsBack ==
    /\ [](\A e \in LatexIds : rendered[e] = "threw" => display[e] = RawText(e))
    /\ [][(\E e \in LatexIds : rendered'[e] = "threw" /\ rendered[e] # "threw") =>
             /\ mounted'
             /\ activeStep' = activeStep
             /\ isLoaded' = isLoaded
             /\ \A o \in LatexIds :
                   rendered'[o] # "threw" =>
                       rendered'[o] = "ok" /\ display'[o] = Typeset(o)]_vars

\* One typesetting call threw while another element was typeset.
C4_Witness ==
    /\ mounted
    /\ \E e \in LatexIds : rendered[e] = "threw"
    /\ \E o \in LatexIds : rendered[o] = "ok" /\ display[o].kind = "katex"

\* C5: at most one script and at most one stylesheet link are ever appended
\* to document.head, and none when window.katex is defined at mount.
C5_LoadedOnce ==
    /\ [](Len(scripts) <= 1 /\ headLinks <= 1)
    /\ [][(lastEvent'.op = "effects" /\ katex) =>
             (scripts' = scripts /\ headLinks' = headLinks)]_vars

\* C6: window.katex.render is invoked only with the loaded flag true and
\* window.katex defined; while either is missing every container shows its
\* raw markup.
C6_LoadingPrecedesRendering ==
    /\ []((~isLoaded \/ ~katex) => (AllRaw /\ ~AllHanded))
    /\ [][(\E e \in LatexIds : rendered'[e] # "none" /\ rendered[e] = "none") =>
             (isLoaded /\ katex)]_vars

\* window.katex is defined (by an earlier instance's script) while the
\* mounted instance's flag is still false after its effect ran.
C6_Witness ==
    /\ mounted
    /\ ~effectsPending
    /\ katex
    /\ ~isLoaded
    /\ AllRaw

\* C7: five consecutive next clicks return activeStep to the start, having
\* visited each index 0..4 exactly once in increasing order modulo 5.
C7_FiveNextsCycle ==
    /\ \A i \in 1 .. (Len(trail) - 1) : trail[i + 1] = (trail[i] + 1) % 5
    /\ Len(trail) = 6 =>
          /\ trail[6] = trail[1]
          /\ {trail[i] : i \in 1 .. 5} = 0 .. 4
          /\ \A i, j \in 1 .. 5 : trail[i] = trail[j] => i = j

\* Five next clicks were made from the last step.
C7_Witness == Len(trail) = 6 /\ trail[1] = 4 /\ lastEvent.op = "next"

\* C8 as stated: once mounted, an instance that stays mounted eventually has
\* the loaded flag true and every Latex element handed to typesetting.
C8_AlwaysEventuallyTypeset ==
    \A g \in 1 .. MaxMounts :
        Here(g) ~> (~Here(g) \/ (isLoaded /\ AllHanded))

\* C8 amended: an instance that stays mounted gets the loaded flag and has
\* every Latex element handed to typesetting if window.katex is defined when
\* its mount effect runs or once its own script fires the load event; as
\* long as its own script has not loaded, the flag stays false and every
\* container shows raw markup.
C8_TypesetWhenScriptLoads ==
    /\ \A g \in 1 .. MaxMounts :
          (Here(g) /\ ((effectsPending /\ katex) \/ OwnScriptLoaded(g)))
              ~> (~Here(g) \/ (isLoaded /\ AllHanded))
    /\ [](\A g \in 1 .. MaxMounts :
             (/\ Here(g)
              /\ \E i \in 1 .. Len(scripts) :
                    scripts[i].owner = g /\ scripts[i].status # "loaded")
                 => (~isLoaded /\ AllRaw))

\* The mounted instance's own script loaded and every element was handed to
\* the typesetting call.
C8_Witness ==
    /\ mounted
    /\ OwnScriptLoaded(mountGen)
    /\ isLoaded
    /\ AllHanded

\* C9: exactly one step is displayed as active, the one at activeStep; right
\* after mount it is the first; after a click the previously active step is
\* displayed as active only if it is the one selected.
C9_OneActiveStep ==
    /\ [](mounted => (Cardinality(ActiveSteps) = 1 /\ ActiveSteps = {activeStep}))
    /\ [](lastEvent.op = "mount" => ActiveSteps = {0})
    /\ [][/\ lastEvent'.op = "next" => ActiveSteps \cap ActiveSteps' = {}
          /\ lastEvent'.op = "select" =>
                /\ ActiveSteps' = {lastEvent'.arg}
                /\ ActiveSteps \cap ActiveSteps' \subseteq {lastEvent'.arg}]_vars

\* A direct selection moved the active display from one step to another.
C9_Witness ==
    /\ mounted
    /\ lastEvent = Event("select", 2)
    /\ ActiveSteps = {2}

\* C10: clicks change only activeStep; a load event changes only the loaded
\* flag, from false to true (it does so for the mounted instance's own
\* script); the flag never falls back while the instance stays mounted.
C10_CursorAndLoaderIndependent ==
    [][/\ lastEvent'.op \in {"next", "select"} =>
             /\ isLoaded' = isLoaded
             /\ scripts' = scripts
             /\ headLinks' = headLinks
             /\ katex' = katex
       /\ lastEvent'.op = "load" =>
             /\ activeStep' = activeStep
             /\ headLinks' = headLinks
             /\ Len(scripts') = Len(scripts)
             /\ display' = display
             /\ (isLoaded' # isLoaded => (~isLoaded /\ isLoaded'))
             /\ (Here(scripts[lastEvent'.arg].owner) => (~isLoaded /\ isLoaded'))
       /\ (mounted /\ mounted' /\ isLoaded) => isLoaded']_vars

\* The mounted instance's script fired its load event with the cursor moved
\* off the first step.
C10_Witness ==
    /\ mounted
    /\ lastEvent.op = "load"
    /\ scripts[lastEvent.arg].owner = mountGen
    /\ isLoaded
    /\ activeStep = 3

====
